---- MODULE Spec2Model ----
(***************************************************************************)
(* ReviewService (app/src/services/reviews.py): a facade over the Mongo    *)
(* collection "reviews".  Every database call is an await, so a call of    *)
(* the service is a sequence of atomic database steps that interleave with *)
(* the steps of the other calls in flight.                                 *)
(***************************************************************************)
EXTENDS Integers, Sequences, FiniteSets, TLC

\* ---------------------------------------------------------------- bounds
\* ObjectIds the store can hand out: 0 .. MaxId-1.
MaxId == 2
\* Hex digits in the string form of an ObjectId (24 in bson).
OidLen == 2
\* Largest page_number and per_page a caller passes to get.
MaxPage == 2
MaxPerPage == 2

\* Requests in flight at once.
Tasks == {"t1", "t2"}
\* The reviews callers submit: two texts for one (film_id, user_id) pair, a
\* second user and a second film.
Reviews ==
    {[film_id |-> "f1", user_id |-> "u1", text |-> "a"],
     [film_id |-> "f1", user_id |-> "u1", text |-> "b"],
     [film_id |-> "f1", user_id |-> "u2", text |-> "a"],
     [film_id |-> "f2", user_id |-> "u1", text |-> "a"]}

\* ------------------------------------------------- identifiers (bson)
HexDigits == <<"0", "1", "2", "3", "4", "5", "6", "7",
               "8", "9", "a", "b", "c", "d", "e", "f">>

IsHex(c) == \E k \in 1..16 : HexDigits[k] = c

HexValue(c) == (CHOOSE k \in 1..16 : HexDigits[k] = c) - 1

RECURSIVE ParseHex(_)
ParseHex(s) ==
    IF s = << >> THEN 0
    ELSE 16 * ParseHex(SubSeq(s, 1, Len(s) - 1)) + HexValue(s[Len(s)])

RECURSIVE Pow16(_)
Pow16(n) == IF n = 0 THEN 1 ELSE 16 * Pow16(n - 1)

\* bson raises InvalidId for a string that is not OidLen hex digits.
ValidObjectId(review_id) ==
    /\ Len(review_id) = OidLen
    /\ \A i \in 1..Len(review_id) : IsHex(review_id[i])

\* ObjectId(review_id): the identifier a well-formed string denotes.
ObjectId(review_id) == ParseHex(review_id)

\* str(ObjectId): the canonical string form of an identifier.
OidStr(oid) ==
    [i \in 1..OidLen |-> HexDigits[((oid \div Pow16(OidLen - i)) % 16) + 1]]

\* The review_id strings callers pass: the string form of every identifier
\* the store can hand out, of one it never hands out, and malformed ones
\* (too short, not hex).
ReviewIds ==
    {OidStr(n) : n \in 0..MaxId}
        \cup {SubSeq(OidStr(0), 1, OidLen - 1), [i \in 1..OidLen |-> "g"]}

\* ------------------------------------------------------ data contracts
\* ReviewIn: the fields a client submits.
ReviewIn(review) == [film_id |-> review.film_id, text |-> review.text]

\* Bug: the film's id is passed where the caller's belongs.
Review_film_as_user(data, user_id) ==
    [film_id |-> data.film_id, user_id |-> data.film_id, text |-> data.text]

\* Review(**data.model_dump(), user_id=user_id)
Review(data, user_id) ==
    [film_id |-> data.film_id, user_id |-> user_id, text |-> data.text]

\* The replacement record update receives, as jsonable_encoder flattens it.
ReviewData == Reviews

\* A stored document: the fields plus the store's _id.
Document(oid, fields) ==
    [_id |-> oid, film_id |-> fields.film_id, user_id |-> fields.user_id,
     text |-> fields.text]

Fields(doc) ==
    [film_id |-> doc.film_id, user_id |-> doc.user_id, text |-> doc.text]

\* ReviewFromDB(**review): _id is read under its alias and marshalled to its
\* string form.
ReviewFromDB(doc) ==
    [id |-> OidStr(doc._id), film_id |-> doc.film_id, user_id |-> doc.user_id,
     text |-> doc.text]

\* Python's None.
None == [none |-> TRUE]

\* --------------------------------------------- the collection (motor)
Ids(coll) == {d._id : d \in coll}

\* find_one({"_id": oid})
find_one_by_id(coll, oid) ==
    IF \E d \in coll : d._id = oid
    THEN CHOOSE d \in coll : d._id = oid
    ELSE None

\* Bug: the insert replaces the pair's documents, as an upsert on the pair.
insert_one_unique(coll, oid, fields) ==
    {d \in coll : d.film_id # fields.film_id \/ d.user_id # fields.user_id}
        \cup {Document(oid, fields)}

\* insert_one(document): the driver assigns the fresh identifier oid.
insert_one(coll, oid, fields) == coll \cup {Document(oid, fields)}

\* Bug: upsert=True, a write that matches nothing inserts the document.
update_one_upsert(coll, oid, data) ==
    {d \in coll : d._id # oid} \cup {Document(oid, data)}

\* update_one({"_id": oid}, {"$set": data}): the first match gets the fields.
update_one(coll, oid, data) ==
    {IF d._id = oid THEN Document(oid, data) ELSE d : d \in coll}

\* Bug: matched_count is read, 1 whenever a document matched.
modified_count_matched(coll, oid, data) ==
    IF \E d \in coll : d._id = oid THEN 1 ELSE 0

\* update_result.modified_count: 1 when a document matched and changed.
modified_count(coll, oid, data) ==
    IF \E d \in coll : d._id = oid /\ Fields(d) # data THEN 1 ELSE 0

\* delete_one({"_id": oid})
delete_one(coll, oid) == {d \in coll : d._id # oid}

\* removed_review.deleted_count
deleted_count(coll, oid) == IF \E d \in coll : d._id = oid THEN 1 ELSE 0

\* find().sort("_id"): the documents ascending by identifier.
RECURSIVE sort(_)
sort(coll) ==
    IF coll = {} THEN << >>
    ELSE LET first == CHOOSE d \in coll : \A e \in coll : d._id <= e._id
         IN  <<first>> \o sort(coll \ {first})

\* cursor.skip(n)
skip(cursor, n) == SubSeq(cursor, n + 1, Len(cursor))

\* cursor.limit(n)
limit(cursor, n) == SubSeq(cursor, 1, IF n < Len(cursor) THEN n ELSE Len(cursor))

\* cursor.to_list(length)
to_list(cursor, length) ==
    SubSeq(cursor, 1, IF length < Len(cursor) THEN length ELSE Len(cursor))

\* ------------------------------------------------------------- state
VARIABLES
    docs,      \* the collection "reviews": a set of documents
    nextOid,   \* the next identifier the driver generates
    pc,        \* per task: the await its call is suspended at
    req,       \* per task: the locals of its call in flight
    resp       \* the response on its way to the caller of the call just ended

vars == <<docs, nextOid, pc, req, resp>>

NoReq == [op |-> "none"]
NoResp == [op |-> "none", task |-> "none", status |-> "none"]

Init ==
    /\ docs = {}
    /\ nextOid = 0
    /\ pc = [t \in Tasks |-> "idle"]
    /\ req = [t \in Tasks |-> NoReq]
    /\ resp = NoResp

\* The call of task t ends: its locals are gone and r goes to the caller.
Return(t, r) ==
    /\ pc' = [pc EXCEPT ![t] = "idle"]
    /\ req' = [req EXCEPT ![t] = NoReq]
    /\ resp' = r

\* The call of task t suspends at the await `at` with locals `locals`.
Await(t, at, locals) ==
    /\ pc' = [pc EXCEPT ![t] = at]
    /\ req' = [req EXCEPT ![t] = locals]
    /\ resp' = NoResp

\* ---------------------------------------------------------------- get
GetResp(t, page_number, per_page, status, logged, value) ==
    [op |-> "get", task |-> t, page_number |-> page_number, per_page |-> per_page,
     status |-> status, logged |-> logged, value |-> value]

\* Bug: pages counted from zero.
SkipCount_from_zero(page_number, per_page) == page_number * per_page

\* (page_number - 1) * per_page
SkipCount(page_number, per_page) == (page_number - 1) * per_page

\* The page the cursor yields.
Page(coll, page_number, per_page) ==
    LET reviews == limit(skip(sort(coll), SkipCount(page_number, per_page)),
                         per_page)
        reviews_list == to_list(reviews, per_page)
    IN  [i \in 1..Len(reviews_list) |-> ReviewFromDB(reviews_list[i])]

Get(t) ==
    /\ resp = NoResp
    /\ pc[t] = "idle"
    /\ \E page_number \in 0..MaxPage, per_page \in 1..MaxPerPage :
        IF SkipCount(page_number, per_page) < 0
        THEN \* cursor.skip raises ValueError inside the try block
             Return(t, GetResp(t, page_number, per_page, "INTERNAL_SERVER_ERROR",
                               TRUE, None))
        ELSE \/ Return(t, GetResp(t, page_number, per_page, "OK", FALSE,
                                  Page(docs, page_number, per_page)))
             \/ \* to_list is awaited outside the try block: a fault propagates
                Return(t, GetResp(t, page_number, per_page, "PyMongoError", FALSE,
                                  None))
    /\ UNCHANGED <<docs, nextOid>>

\* ---------------------------------------------------------------- add
\* Bug: the film's id is matched against both fields.
check_if_review_exist_film_twice(coll, movie_id, user_id) ==
    IF \E d \in coll : d.film_id = movie_id /\ d.user_id = movie_id
    THEN CHOOSE d \in coll : d.film_id = movie_id /\ d.user_id = movie_id
    ELSE None

\* check_if_review_exist: find_one({"film_id": movie_id, "user_id": user_id})
check_if_review_exist(coll, movie_id, user_id) ==
    IF \E d \in coll : d.film_id = movie_id /\ d.user_id = user_id
    THEN CHOOSE d \in coll : d.film_id = movie_id /\ d.user_id = user_id
    ELSE None

AddResp(t, user_id, data, status, logged, inserted_id, value) ==
    [op |-> "add", task |-> t, user_id |-> user_id, data |-> data,
     status |-> status, logged |-> logged, inserted_id |-> inserted_id,
     value |-> value]

\* Identifiers still to hand out to the adds that have passed the check.
AddsPending == Cardinality({t \in Tasks : pc[t] = "add_insert"})

\* add up to its first await: build the Review, run the existence check.
AddCheck(t) ==
    /\ resp = NoResp
    /\ pc[t] = "idle"
    /\ \E submitted \in Reviews :
        LET user_id == submitted.user_id
            data == ReviewIn(submitted)
            review == Review(data, user_id)
            film_id == review.film_id
            is_review_exist == check_if_review_exist(docs, film_id, user_id)
        IN  \/ IF is_review_exist # None
               THEN Return(t, AddResp(t, user_id, data, "CONFLICT", FALSE, -1,
                                      None))
               ELSE /\ nextOid + AddsPending < MaxId
                    /\ Await(t, "add_insert",
                             [op |-> "add", user_id |-> user_id, data |-> data,
                              inserted_id |-> -1])
            \/ \* a fault of the existence check has no handler
               Return(t, AddResp(t, user_id, data, "PyMongoError", FALSE, -1,
                                 None))
    /\ UNCHANGED <<docs, nextOid>>

\* add at insert_one, inside the try block.
AddInsert(t) ==
    /\ resp = NoResp
    /\ pc[t] = "add_insert"
    /\ LET review == Review(req[t].data, req[t].user_id)
           review_data_for_db == review
       IN  \/ /\ docs' = insert_one(docs, nextOid, review_data_for_db)
              /\ nextOid' = nextOid + 1
              /\ Await(t, "add_find", [req[t] EXCEPT !.inserted_id = nextOid])
           \/ \* a fault of insert_one is caught and logged
              /\ Return(t, AddResp(t, req[t].user_id, req[t].data,
                                   "INTERNAL_SERVER_ERROR", TRUE, -1, None))
              /\ UNCHANGED <<docs, nextOid>>

\* add at the re-read find_one({"_id": new_data.inserted_id}).
AddFind(t) ==
    /\ resp = NoResp
    /\ pc[t] = "add_find"
    /\ \/ Return(t, AddResp(t, req[t].user_id, req[t].data, "OK", FALSE,
                            req[t].inserted_id,
                            find_one_by_id(docs, req[t].inserted_id)))
       \/ \* a fault of the re-read has no handler
          Return(t, AddResp(t, req[t].user_id, req[t].data, "PyMongoError",
                            FALSE, req[t].inserted_id, None))
    /\ UNCHANGED <<docs, nextOid>>

\* ------------------------------------------------------------- update
UpdateResp(t, review_id, status, value) ==
    [op |-> "update", task |-> t, review_id |-> review_id, status |-> status,
     logged |-> FALSE, value |-> value]

\* update up to its first await: encode the data, look the document up.
UpdateCheck(t) ==
    /\ resp = NoResp
    /\ pc[t] = "idle"
    /\ \E review_id \in ReviewIds :
        IF ~ValidObjectId(review_id)
        THEN \* ObjectId(review_id) raises InvalidId
             Return(t, UpdateResp(t, review_id, "InvalidId", None))
        ELSE \/ IF find_one_by_id(docs, ObjectId(review_id)) = None
                THEN Return(t, UpdateResp(t, review_id, "NOT_FOUND", None))
                ELSE \E data \in ReviewData :
                        LET prep_review_data == data
                        IN  Await(t, "update_write",
                                  [op |-> "update", review_id |-> review_id,
                                   data |-> prep_review_data])
             \/ Return(t, UpdateResp(t, review_id, "PyMongoError", None))
    /\ UNCHANGED <<docs, nextOid>>

\* update at update_one.
UpdateWrite(t) ==
    /\ resp = NoResp
    /\ pc[t] = "update_write"
    /\ LET oid == ObjectId(req[t].review_id)
       IN  \/ /\ docs' = update_one(docs, oid, req[t].data)
              /\ IF modified_count(docs, oid, req[t].data) = 1
                 THEN Await(t, "update_find", [op |-> "update",
                                               review_id |-> req[t].review_id])
                 ELSE \* falls off the end of the function
                      Return(t, UpdateResp(t, req[t].review_id, "OK", None))
           \/ /\ Return(t, UpdateResp(t, req[t].review_id, "PyMongoError", None))
              /\ docs' = docs
    /\ UNCHANGED nextOid

\* update at the re-read find_one.
UpdateFind(t) ==
    /\ resp = NoResp
    /\ pc[t] = "update_find"
    /\ \/ Return(t, UpdateResp(t, req[t].review_id, "OK",
                               find_one_by_id(docs, ObjectId(req[t].review_id))))
       \/ Return(t, UpdateResp(t, req[t].review_id, "PyMongoError", None))
    /\ UNCHANGED <<docs, nextOid>>

\* ------------------------------------------------------------- remove
RemoveResp(t, review_id, status) ==
    [op |-> "remove", task |-> t, review_id |-> review_id, status |-> status,
     logged |-> FALSE, value |-> None]

Remove(t) ==
    /\ resp = NoResp
    /\ pc[t] = "idle"
    /\ \E review_id \in ReviewIds :
        IF ~ValidObjectId(review_id)
        THEN \* ObjectId(review_id) raises InvalidId
             /\ Return(t, RemoveResp(t, review_id, "InvalidId"))
             /\ docs' = docs
        ELSE \/ /\ docs' = delete_one(docs, ObjectId(review_id))
                /\ IF deleted_count(docs, ObjectId(review_id)) # 1
                   THEN Return(t, RemoveResp(t, review_id, "NOT_FOUND"))
                   ELSE Return(t, RemoveResp(t, review_id, "OK"))
             \/ /\ Return(t, RemoveResp(t, review_id, "PyMongoError"))
                /\ docs' = docs
    /\ UNCHANGED nextOid

\* The event loop hands the response to the caller before it runs another
\* step.
Respond ==
    /\ resp # NoResp
    /\ resp' = NoResp
    /\ UNCHANGED <<docs, nextOid, pc, req>>

\* ------------------------------------------------------ specifications
Next ==
    \/ Respond
    \/ \E t \in Tasks :
        \/ Get(t)
        \/ AddCheck(t)
        \/ AddInsert(t)
        \/ AddFind(t)
        \/ UpdateCheck(t)
        \/ UpdateWrite(t)
        \/ UpdateFind(t)
        \/ Remove(t)

\* Calls interleave at every await.
Spec == Init /\ [][Next]_vars

\* Each call runs to completion before the next one starts.
Alone(t) == \A o \in Tasks \ {t} : pc[o] = "idle"

NextSeq ==
    \/ Respond
    \/ \E t \in Tasks : Alone(t) /\ Get(t)
    \/ \E t \in Tasks : Alone(t) /\ AddCheck(t)
    \/ \E t \in Tasks : Alone(t) /\ AddInsert(t)
    \/ \E t \in Tasks : Alone(t) /\ AddFind(t)
    \/ \E t \in Tasks : Alone(t) /\ UpdateCheck(t)
    \/ \E t \in Tasks : Alone(t) /\ UpdateWrite(t)
    \/ \E t \in Tasks : Alone(t) /\ UpdateFind(t)
    \/ \E t \in Tasks : Alone(t) /\ Remove(t)

SpecSeq == Init /\ [][NextSeq]_vars

\* ------------------------------------------------------------ claims
\* The documents stored for a (film_id, user_id) pair.
DocsFor(coll, film_id, user_id) ==
    {d \in coll : d.film_id = film_id /\ d.user_id = user_id}

\* The documents whose identifier has the string form review_id.
DocsWithId(coll, review_id) == {d \in coll : OidStr(d._id) = review_id}

\* The database answered the call of the step (it raised no fault).
Answered == resp'.status \notin {"PyMongoError"}

\* C1: with calls that run one at a time from the empty collection, the
\* collection holds at most one document for every (film_id, user_id) pair.
C1_OneReviewPerPair ==
    (\A t \in Tasks : pc[t] = "idle")
    => \A d, e \in docs :
            (d.film_id = e.film_id /\ d.user_id = e.user_id) => d = e

\* Task t takes the first step of add: the existence check.
AddCheckStep(t) ==
    /\ pc[t] = "idle"
    /\ \/ pc'[t] = "add_insert"
       \/ resp'.op = "add" /\ resp'.task = t

Submitted(oid, user_id, data) ==
    [_id |-> oid, film_id |-> data.film_id, user_id |-> user_id,
     text |-> data.text]

\* C3: an add that has passed the existence check inserts without looking
\* again: when the database answers, its insert adds one more document for
\* the pair whatever the collection holds by then, and never fails with
\* Conflict. So two adds for one pair that both passed the check both insert.
C3_InsertDoesNotRecheck ==
    [][\A t \in Tasks :
        (/\ pc[t] = "add_insert"
         /\ pc'[t] # "add_insert"
         /\ resp'.status # "INTERNAL_SERVER_ERROR")
        => /\ pc'[t] = "add_find"
           /\ resp' = NoResp
           /\ docs' = docs \cup {Submitted(req'[t].inserted_id, req[t].user_id,
                                            req[t].data)}
           /\ Cardinality(DocsFor(docs', req[t].data.film_id, req[t].user_id))
                = Cardinality(DocsFor(docs, req[t].data.film_id, req[t].user_id))
                    + 1]_vars

\* The race has happened: two adds for one pair are both past the check and
\* the insert, and the collection holds the two documents they inserted.
C3_Witness ==
    \E t1, t2 \in Tasks :
        /\ t1 # t2
        /\ pc[t1] = "add_find"
        /\ pc[t2] = "add_find"
        /\ req[t1].user_id = req[t2].user_id
        /\ req[t1].data.film_id = req[t2].data.film_id
        /\ req[t1].inserted_id # req[t2].inserted_id
        /\ \A t \in {t1, t2} :
            Submitted(req[t].inserted_id, req[t].user_id, req[t].data) \in docs
        /\ Cardinality(DocsFor(docs, req[t1].data.film_id, req[t1].user_id)) = 2

\* C4 as stated: a successful add returns the document the collection holds
\* under the new identifier, with the submitted fields and the caller's
\* user_id, and a lookup by that identifier yields the same document.
C4_AddReturnsStored ==
    (resp.op = "add" /\ resp.status = "OK")
    => /\ resp.value = Submitted(resp.inserted_id, resp.user_id, resp.data)
       /\ resp.value \in docs
       /\ find_one_by_id(docs, resp.inserted_id) = resp.value

\* C4 amended: add inserts the submitted fields with the caller's user_id
\* under an identifier no document has or had; and when that document is
\* still stored unchanged at the re-read (no concurrent update or remove got
\* at it), a successful add returns it, and a lookup by the returned
\* identifier yields the same document.
C4_AddReturnsStoredIfUntouched ==
    /\ [](\A d \in docs : d._id < nextOid)
    /\ [][\A t \in Tasks :
            /\ (pc[t] = "add_insert" /\ pc'[t] = "add_find")
               => /\ req'[t].inserted_id = nextOid
                  /\ nextOid' > nextOid
                  /\ req'[t].inserted_id \notin Ids(docs)
                  /\ docs' = docs \cup {Submitted(req'[t].inserted_id,
                                                   req[t].user_id, req[t].data)}
            /\ (/\ pc[t] = "add_find"
                /\ resp'.op = "add" /\ resp'.task = t /\ resp'.status = "OK"
                /\ Submitted(req[t].inserted_id, req[t].user_id, req[t].data)
                       \in docs)
               => /\ resp'.value = Submitted(req[t].inserted_id, req[t].user_id,
                                             req[t].data)
                  /\ resp'.inserted_id = req[t].inserted_id
                  /\ resp'.user_id = req[t].user_id /\ resp'.data = req[t].data
                  /\ docs' = docs
                  /\ find_one_by_id(docs', resp'.inserted_id) = resp'.value]_vars

\* An add has just returned the document it inserted, next to another one.
C4_Witness ==
    /\ resp.op = "add"
    /\ resp.status = "OK"
    /\ resp.value = Submitted(resp.inserted_id, resp.user_id, resp.data)
    /\ resp.value \in docs
    /\ Cardinality(docs) = 2

\* C5: remove of an identifier no document has fails with NotFound and
\* leaves the collection unchanged; remove of an identifier a document has
\* succeeds, deletes exactly that document and nothing else, and a lookup by
\* the identifier then finds nothing.
C5_RemoveContract ==
    [][\A t \in Tasks :
        (pc[t] = "idle" /\ resp'.op = "remove" /\ resp'.task = t /\ Answered)
        => LET hit == DocsWithId(docs, resp'.review_id)
           IN  IF hit = {}
               THEN resp'.status = "NOT_FOUND" /\ docs' = docs
               ELSE /\ resp'.status = "OK"
                    /\ Cardinality(hit) = 1
                    /\ docs' = docs \ hit
                    /\ DocsWithId(docs', resp'.review_id) = {}]_vars

\* C5 for well-formed identifiers: the contract of C5 holds of every remove
\* whose review_id is the string form of an ObjectId.
C5_RemoveContractWellFormed ==
    [][\A t \in Tasks :
        (/\ pc[t] = "idle" /\ resp'.op = "remove" /\ resp'.task = t /\ Answered
         /\ ValidObjectId(resp'.review_id))
        => LET hit == DocsWithId(docs, resp'.review_id)
           IN  IF hit = {}
               THEN resp'.status = "NOT_FOUND" /\ docs' = docs
               ELSE /\ resp'.status = "OK"
                    /\ Cardinality(hit) = 1
                    /\ docs' = docs \ hit
                    /\ DocsWithId(docs', resp'.review_id) = {}]_vars

\* Task t takes the first step of update: the existence check.
UpdateCheckStep(t) ==
    /\ pc[t] = "idle"
    /\ \/ pc'[t] = "update_write"
       \/ resp'.op = "update" /\ resp'.task = t

\* C6: update of an identifier no document has fails with NotFound and
\* leaves the collection exactly as it was.
C6_UpdateMissingNotFound ==
    [][\A t \in Tasks :
        LET review_id == IF pc'[t] = "update_write" THEN req'[t].review_id
                         ELSE resp'.review_id
        IN  (/\ UpdateCheckStep(t)
             /\ Answered
             /\ DocsWithId(docs, review_id) = {})
            => /\ resp'.op = "update"
               /\ resp'.status = "NOT_FOUND"
               /\ docs' = docs]_vars

\* C6 for well-formed identifiers: update of the string form of an ObjectId
\* no document has fails with NotFound and leaves the collection as it was;
\* a malformed review_id leaves it as it was too.
C6_UpdateMissingWellFormed ==
    [][\A t \in Tasks :
        LET review_id == IF pc'[t] = "update_write" THEN req'[t].review_id
                         ELSE resp'.review_id
        IN  (/\ UpdateCheckStep(t)
             /\ Answered
             /\ DocsWithId(docs, review_id) = {})
            => /\ resp'.op = "update"
               /\ ValidObjectId(review_id) => resp'.status = "NOT_FOUND"
               /\ docs' = docs]_vars

\* C7: update of an existing document whose stored fields already equal the
\* data does not fail with NotFound at the existence check, and its write
\* leaves the collection unchanged and ends the call with the empty result.
C7_UpdateSameDataIsNoOp ==
    [][\A t \in Tasks :
        /\ (/\ UpdateCheckStep(t)
            /\ Answered
            /\ DocsWithId(docs, IF pc'[t] = "update_write"
                                THEN req'[t].review_id
                                ELSE resp'.review_id) # {})
           => pc'[t] = "update_write" /\ docs' = docs
        /\ (/\ pc[t] = "update_write"
            /\ pc'[t] # "update_write"
            /\ Answered
            /\ \E d \in DocsWithId(docs, req[t].review_id) :
                    Fields(d) = req[t].data)
           => /\ docs' = docs
              /\ resp'.op = "update" /\ resp'.task = t
              /\ resp'.status = "OK"
              /\ resp'.value = None]_vars

\* An update has just ended with the empty result and its document is stored.
C7_Witness ==
    /\ resp.op = "update"
    /\ resp.status = "OK"
    /\ resp.value = None
    /\ DocsWithId(docs, resp.review_id) # {}

\* The number of documents of coll with an identifier below d's.
Rank(coll, d) == Cardinality({e \in coll : e._id < d._id})

\* C8: for page_number >= 1 and per_page > 0, get returns the documents at
\* positions (page_number-1)*per_page up to, not including,
\* page_number*per_page of the collection sorted ascending by identifier:
\* at most per_page of them, in identifier order, none when the page lies
\* past the data.
C8_GetReturnsPage ==
    (resp.op = "get" /\ resp.page_number >= 1 /\ resp.status # "PyMongoError")
    => LET first == (resp.page_number - 1) * resp.per_page
           left == Cardinality(docs) - first
           count == IF left <= 0 THEN 0
                    ELSE IF left < resp.per_page THEN left ELSE resp.per_page
       IN  /\ resp.status = "OK"
           /\ Len(resp.value) = count
           /\ Len(resp.value) <= resp.per_page
           /\ \A i \in 1..Len(resp.value) :
                \E d \in docs :
                    /\ Rank(docs, d) = first + i - 1
                    /\ resp.value[i] = ReviewFromDB(d)
           /\ \A i \in 1..(Len(resp.value) - 1) :
                ObjectId(resp.value[i].id) <= ObjectId(resp.value[i + 1].id)

\* A get has just returned the second page: it skipped the first document.
C8_Witness ==
    /\ resp.op = "get"
    /\ resp.status = "OK"
    /\ resp.page_number = 2
    /\ resp.per_page = 1
    /\ Cardinality(docs) = 2
    /\ Len(resp.value) = 1

\* C9: whatever fails in get, at the query or at the fetch, leaves it as a
\* logged InternalError.
C9_GetFaultsAreInternalErrors ==
    (resp.op = "get" /\ resp.status # "OK")
    => resp.status = "INTERNAL_SERVER_ERROR" /\ resp.logged

\* Task t takes the write step of update and the database answers.
UpdateWriteStep(t) ==
    pc[t] = "update_write" /\ pc'[t] # "update_write" /\ Answered

\* Task t takes the re-read step of update and the database answers.
UpdateFindStep(t) ==
    pc[t] = "update_find" /\ pc'[t] # "update_find" /\ Answered

\* C10 as stated: whatever a concurrent remove does, the document is stored
\* when the update's write is applied, and an update whose modification
\* counter is 1 returns the document, never an absent value.
C10_UpdateHoldsItsDocument ==
    [][\A t \in Tasks :
        /\ UpdateWriteStep(t) => DocsWithId(docs, req[t].review_id) # {}
        /\ UpdateFindStep(t) => resp'.value # None]_vars

\* C10 amended: the document is stored when the update's existence check
\* passes and, if the modification counter is 1, when its write is applied
\* (a write that finds it removed counts 0 and ends with the empty result);
\* the re-read returns the document if it is still stored and an absent
\* value if a remove deleted it in between.
C10_UpdateHoldsItsDocumentAtCheck ==
    [][\A t \in Tasks :
        /\ (pc[t] = "idle" /\ pc'[t] = "update_write")
           => DocsWithId(docs, req'[t].review_id) # {}
        /\ (UpdateWriteStep(t) /\ pc'[t] = "update_find")
           => /\ DocsWithId(docs, req[t].review_id) # {}
              /\ DocsWithId(docs', req[t].review_id)
                    = {Document(ObjectId(req[t].review_id), req[t].data)}
        /\ (UpdateWriteStep(t) /\ DocsWithId(docs, req[t].review_id) = {})
           => /\ resp'.status = "OK" /\ resp'.value = None
              /\ docs' = docs
        /\ UpdateFindStep(t)
           => /\ resp'.status = "OK"
              /\ IF DocsWithId(docs, req[t].review_id) = {}
                 THEN resp'.value = None
                 ELSE resp'.value \in DocsWithId(docs, req[t].review_id)]_vars

\* An update has just returned the document it modified.
C10_Witness ==
    /\ resp.op = "update"
    /\ resp.status = "OK"
    /\ resp.value # None
    /\ resp.value \in DocsWithId(docs, resp.review_id)

====
